---- MODULE Spec2Model ----
(***************************************************************************)
(* OSTEO VISION (src/app/app.py): a Streamlit script.  Every interaction   *)
(* re-executes the whole script from the top; one execution is a "run".    *)
(* The only state that survives a run is the model file at MODEL_PATH.     *)
(*                                                                         *)
(* Numbers are exact rationals <<n, d>> (d > 0, lowest terms); <<0, 0>> is *)
(* NaN and <<1, 0>>, <<-1, 0>> are the infinities, as IEEE division gives  *)
(* them.  Rounding error of float32 is not modelled.                       *)
(***************************************************************************)
EXTENDS Integers, Sequences, FiniteSets, TLC

(* ------------------------------ bounds -------------------------------- *)
MaxRuns == 3          \* script executions in one session
NChunks == 2          \* 8192-byte chunks in the remote artifact

StatusCodes == {200, 404, 500}
ArtifactKinds == {"ok", "corrupt", "nolayer"}
Channels == {1, 2}
ActValues == {0, 1}
GradValues == {-1, 1}
PixelValues == {100, 255}
NaNCastOutcomes == {0, 255}
ProbRes == 125 * 100
ProbSplits == {<<6250, 6250>>, <<1543, 10957>>}
Alphas == {<<0, 1>>, <<2, 5>>, <<1, 1>>}
HeatValues == {<<0, 1>>, <<1, 2>>, <<1, 1>>}
IndexArgs == {-6, -1, 0, 2, 4, 5}

None == <<>>
Some(v) == <<v>>

(* ---------------------------- rationals ------------------------------- *)
Abs(x) == IF x < 0 THEN -x ELSE x

RECURSIVE GCD(_, _)
GCD(a, b) == IF b = 0 THEN a ELSE GCD(b, a % b)

Sign(x) == IF x > 0 THEN 1 ELSE IF x < 0 THEN -1 ELSE 0

\* the quotient n / d as IEEE division gives it: 0 / 0 is NaN, x / 0 infinite
Rat(n, d) ==
    IF d = 0 THEN <<Sign(n), 0>>
    ELSE LET g == GCD(Abs(n), Abs(d))
             s == IF d < 0 THEN -1 ELSE 1
         IN  <<(s * n) \div g, (s * d) \div g>>

NaN == <<0, 0>>
IsFinite(x) == x[2] # 0
RatInt(k) == <<k, 1>>
RatAdd(x, y) == IF x[2] = 0 \/ y[2] = 0 THEN NaN
                ELSE Rat(x[1] * y[2] + y[1] * x[2], x[2] * y[2])
RatSub(x, y) == RatAdd(x, <<-y[1], y[2]>>)
RatMul(x, y) == IF x[2] = 0 \/ y[2] = 0 THEN NaN
                ELSE Rat(x[1] * y[1], x[2] * y[2])
\* comparisons with NaN are false
RatLess(x, y) == IsFinite(x) /\ IsFinite(y) /\ x[1] * y[2] < y[1] * x[2]
RatLeq(x, y) == IsFinite(x) /\ IsFinite(y) /\ x[1] * y[2] <= y[1] * x[2]
\* largest integer not above a finite rational
RatFloor(x) == x[1] \div x[2]

RECURSIVE RatSum(_, _)
RatSum(f, S) == IF S = {} THEN RatInt(0)
                ELSE LET i == CHOOSE j \in S : TRUE
                     IN  RatAdd(f[i], RatSum(f, S \ {i}))

\* the finite maximum of f over S
RatMax(f, S) == f[CHOOSE i \in S : \A j \in S : RatLeq(f[j], f[i])]

RECURSIVE IntSum(_, _)
IntSum(f, S) == IF S = {} THEN 0
                ELSE LET i == CHOOSE j \in S : TRUE
                     IN  f[i] + IntSum(f, S \ {i})

IntMax(S) == CHOOSE v \in S : \A w \in S : w <= v

(* ------------------------ data of one request ------------------------- *)
class_names == <<"KL-GRADE 0", "KL-GRADE 1", "KL-GRADE 2", "KL-GRADE 3", "KL-GRADE 4">>
Classes == 1 .. Len(class_names)

\* spatial cells of the activation map, and pixels of the image
Positions == {1, 2}
RGB == 1 .. 3
Cells == Positions \X RGB

\* softmax outputs: five probabilities that sum to 1.  Two classes share the
\* whole mass, or all five are equal.
ProbVectors ==
    { [k \in Classes |->
          Rat(IF k = q[1] THEN s[1] ELSE IF k = q[2] THEN s[2] ELSE 0, ProbRes)] :
        q \in {r \in Classes \X Classes : r[1] # r[2]}, s \in ProbSplits }
    \cup { [k \in Classes |-> Rat(1, Len(class_names))] }

\* feature maps and their gradients, one value per cell and channel
ActivationMaps == [Positions -> [Channels -> ActValues]]
GradientMaps == [Positions -> [Channels -> GradValues]]

\* decoded uploads: an X-ray is grey, its three channels are equal
Images == { [c \in Cells |-> IF c[1] = 1 THEN a ELSE b] : a, b \in PixelValues }
Uploads == { [kind |-> "corrupt", pixels |-> None] }
             \cup { [kind |-> "image", pixels |-> Some(i)] : i \in Images }
NoUpload == [kind |-> "none", pixels |-> None]

(* ------------------------- Preprocessing Stage ------------------------ *)
\* xception.preprocess_input: x / 127.5 - 1
preprocess_input(x) == [c \in DOMAIN x |-> Rat(2 * x[c] - 255, 255)]

(* ------------------------- Confidence Reporter ------------------------ *)
\* np.argmax and tf.argmax: the first index of the maximum, 0-based
RECURSIVE ArgMaxScan(_, _, _)
ArgMaxScan(p, i, best) ==
    IF i > Len(p) THEN best
    ELSE ArgMaxScan(p, i + 1, IF RatLess(p[best], p[i]) THEN i ELSE best)

argmax(p) == ArgMaxScan(p, 2, 1) - 1

\* f"{x:.2f}": x >= 0 rounded to hundredths, ties to even
Format2f(x) ==
    LET h == RatMul(RatInt(100), x)
        n == RatFloor(h)
        twice == RatSub(RatMul(RatInt(2), h), RatInt(2 * n))
    IN  IF RatLess(RatInt(1), twice) THEN n + 1
        ELSE IF twice = RatInt(1) THEN (IF n % 2 = 0 THEN n ELSE n + 1)
        ELSE n

\* the factor 100 forgotten
ScaledBy100_Unscaled(p) == p

ScaledBy100(p) == [i \in DOMAIN p |-> RatMul(RatInt(100), p[i])]

PredictedClass(p) == class_names[argmax(p) + 1]

\* predicted_class, prediction_probabilities and st.metric's delta: the largest
\* percentage (confidence), printed with two decimals (delta, in hundredths)
Report(predictions) ==
    LET prediction_probabilities == ScaledBy100(predictions)
        confidence == RatMax(prediction_probabilities, DOMAIN prediction_probabilities)
    IN  [predicted_class |-> PredictedClass(predictions),
         prediction_probabilities |-> prediction_probabilities,
         confidence |-> confidence,
         delta |-> Format2f(confidence)]

\* ax.barh(class_names, prediction_probabilities) and the label of each bar
BarChart(probabilities) ==
    [i \in Classes |-> [label |-> class_names[i],
                        width |-> probabilities[i],
                        text |-> Format2f(probabilities[i])]]

(* -------------------------- Saliency Explainer ------------------------ *)
\* preds[:, pred_index]: TensorFlow slicing counts a negative index from the
\* end and raises InvalidArgumentError outside [-5, 4]
SliceIndex(i) ==
    IF i >= 0 /\ i < Len(class_names) THEN Some(i)
    ELSE IF i < 0 /\ i >= -Len(class_names) THEN Some(i + Len(class_names))
    ELSE None

\* tf.reduce_mean(grads, axis=(0, 1, 2)): the mean over the cells, kept as its
\* numerator over the number of cells
PooledGrads(grads) ==
    [ch \in Channels |-> IntSum([p \in Positions |-> grads[p][ch]], Positions)]

\* last_conv_layer_output[0] @ pooled_grads[..., tf.newaxis], squeezed; again
\* numerators over the number of cells
WeightedMap(acts, pooled) ==
    [p \in Positions |->
        IntSum([ch \in Channels |-> acts[p][ch] * pooled[ch]], Channels)]

\* tf.maximum(heatmap, 0) / tf.math.reduce_max(heatmap): the common denominator
\* cancels in the quotient
Normalize(h) ==
    LET m == IntMax({h[p] : p \in DOMAIN h})
    IN  [p \in DOMAIN h |-> Rat(IF h[p] < 0 THEN 0 ELSE h[p], m)]

\* pred_index defaulting to class 0 instead of the arg-max
make_gradcam_heatmap_FirstClass(preds, acts, grads, index) ==
    LET chosen == IF index = None THEN Some(0) ELSE SliceIndex(index[1])
    IN  IF chosen = None
        THEN [raised |-> Some("InvalidArgumentError"), forward_passes |-> 1,
              pred_index |-> None, heatmap |-> None]
        ELSE [raised |-> None, forward_passes |-> 1,
              pred_index |-> chosen,
              heatmap |-> Some(Normalize(WeightedMap(acts, PooledGrads(grads))))]

\* make_gradcam_heatmap.  preds and acts are what grad_model(img_array)
\* returns, grads is tape.gradient of the selected class channel; index is the
\* pred_index argument, None when omitted.
make_gradcam_heatmap(preds, acts, grads, index) ==
    LET chosen == IF index = None THEN Some(argmax(preds)) ELSE SliceIndex(index[1])
    IN  IF chosen = None
        THEN [raised |-> Some("InvalidArgumentError"), forward_passes |-> 1,
              pred_index |-> None, heatmap |-> None]
        ELSE [raised |-> None, forward_passes |-> 1,
              pred_index |-> chosen,
              heatmap |-> Some(Normalize(WeightedMap(acts, PooledGrads(grads))))]

(* --------------------------- Overlay Renderer ------------------------- *)
\* np.uint8 of a float: truncation, modulo 256; of NaN: whatever the build
\* produces (nan_cast)
Uint8(x, nan_cast) ==
    IF ~IsFinite(x) THEN nan_cast
    ELSE (IF x[1] >= 0 THEN RatFloor(x) ELSE -RatFloor(<<-x[1], x[2]>>)) % 256

\* matplotlib's segment data of "jet": <<200 x, 2 y>> for each point (x, y)
JetRed == << <<0, 0>>, <<70, 0>>, <<132, 2>>, <<178, 2>>, <<200, 1>> >>
JetGreen == << <<0, 0>>, <<25, 0>>, <<75, 2>>, <<128, 2>>, <<182, 0>>, <<200, 0>> >>
JetBlue == << <<0, 1>>, <<22, 2>>, <<68, 2>>, <<130, 0>>, <<200, 0>> >>

\* colour values are kept in millionths
HalfUnit == 500 * 1000

\* entry i of the 256-entry lookup table of one channel: linear interpolation
\* between the two segment points around i / 255
JetLut(data, i) ==
    IF i = 0 THEN HalfUnit * data[1][2]
    ELSE IF i = 255 THEN HalfUnit * data[Len(data)][2]
    ELSE LET k == CHOOSE j \in 2 .. Len(data) :
                      /\ 51 * data[j][1] >= 40 * i
                      /\ 51 * data[j - 1][1] < 40 * i
             distance == ((40 * i - 51 * data[k - 1][1]) * HalfUnit)
                            \div (51 * (data[k][1] - data[k - 1][1]))
         IN  HalfUnit * data[k - 1][2] + distance * (data[k][2] - data[k - 1][2])

\* jet(np.arange(256))[:, :3][i]
jet_colors(i) == <<JetLut(JetRed, i), JetLut(JetGreen, i), JetLut(JetBlue, i)>>

\* keras array_to_img with its default scale=True: shift the minimum to 0,
\* divide by the maximum unless it is 0, multiply by 255, cast to uint8.
\* x holds integers in one common unit, which the scaling cancels.
array_to_img(x) ==
    LET lo == CHOOSE v \in {x[c] : c \in DOMAIN x} : \A c \in DOMAIN x : v <= x[c]
        x_max == CHOOSE v \in {x[c] - lo : c \in DOMAIN x} :
                     \A c \in DOMAIN x : x[c] - lo <= v
    IN  [c \in DOMAIN x |->
            IF x_max = 0 THEN 0 ELSE (255 * (x[c] - lo)) \div x_max]

\* overlay_heatmap_on_image.  img holds the pixels 0..255 of the original
\* image; the heat map has the image's resolution, so the resize keeps it.
\* alpha = <<a, b>> is a / b; the blend is kept in units of 1 / b.
overlay_heatmap_on_image(img, heatmap, alpha, nan_cast) ==
    LET heatmap8 == [p \in Positions |->
                        Uint8(RatMul(RatInt(255), heatmap[p]), nan_cast)]
        jet_heatmap == [c \in Cells |-> jet_colors(heatmap8[c[1]])[c[2]]]
        jet_img == array_to_img(jet_heatmap)
        superimposed_img ==
            [c \in Cells |-> jet_img[c] * alpha[1] + img[c] * alpha[2]]
    IN  array_to_img(superimposed_img)

(* ------------------------------ state --------------------------------- *)
VARIABLES
    pc,                 \* position of the running script
    runs,               \* script executions started so far
    uploaded_file,      \* the file_uploader widget's value in this run
    file_exists,        \* os.path.exists(MODEL_PATH)
    file_chunks,        \* chunks the file at MODEL_PATH holds
    artifact,           \* what the remote URL serves
    present_at_start,   \* the file existed when this run started
    fetch_calls,        \* requests.get calls of this run
    status_code,        \* response.status_code, 0 before any request
    raised,             \* the uncaught exception that ended this run
    messages,           \* st.info / st.success / st.error shown in this run
    model,              \* the loaded model, "none" before load_model
    grad_model,         \* the gradient sub-model was built
    img,                \* the decoded upload
    img_array,          \* the preprocessed tensor
    predictions,        \* model.predict(img_array)[0]
    report,             \* what st.metric shows: class, percentages, delta
    heatmap,            \* the result of make_gradcam_heatmap
    pred_index,         \* the class whose score was differentiated
    heatmap_overlay,    \* the result of overlay_heatmap_on_image
    bars,               \* the confidence bar chart
    failed_stage,       \* the stage whose exception the handler caught
    had_request_error,  \* an earlier upload of this session failed
    explain_call,       \* a direct call of make_gradcam_heatmap and its result
    overlay_call        \* a direct call of overlay_heatmap_on_image and its result

startup == <<file_exists, file_chunks, artifact, present_at_start, fetch_calls,
             status_code, raised, model, grad_model>>
request == <<img, img_array, predictions, report, heatmap, pred_index,
             heatmap_overlay, bars, failed_stage, had_request_error>>
call == <<explain_call, overlay_call>>
vars == <<pc, runs, uploaded_file, messages, startup, request, call>>

RequestStages == {"preprocess", "predict", "gradcam", "overlay", "render"}
Halted == {"crashed", "stopped"}

Init ==
    /\ pc = "start"
    /\ runs = 1
    /\ uploaded_file = NoUpload
    /\ file_exists \in BOOLEAN
    /\ file_chunks = IF file_exists THEN NChunks ELSE 0
    /\ artifact \in ArtifactKinds
    /\ present_at_start = file_exists
    /\ fetch_calls = 0
    /\ status_code = 0
    /\ raised = None
    /\ messages = {}
    /\ model = "none"
    /\ grad_model = FALSE
    /\ img = None
    /\ img_array = None
    /\ predictions = None
    /\ report = None
    /\ heatmap = None
    /\ pred_index = None
    /\ heatmap_overlay = None
    /\ bars = None
    /\ failed_stage = None
    /\ had_request_error = FALSE
    /\ explain_call = None
    /\ overlay_call = None

(* --------------------------- Model Provisioner ------------------------ *)
\* the download started without the presence check
ProvisionGuard_NoPresenceCheck ==
    /\ pc = "start"
    /\ pc' = "get"
    /\ messages' = messages \cup {"info: Downloading model"}
    /\ UNCHANGED <<runs, uploaded_file, startup, request, call>>

\* if not os.path.exists(MODEL_PATH): st.info(...); download_model_from_url(...)
ProvisionGuard ==
    /\ pc = "start"
    /\ IF file_exists
       THEN pc' = "load" /\ UNCHANGED messages
       ELSE pc' = "get" /\ messages' = messages \cup {"info: Downloading model"}
    /\ UNCHANGED <<runs, uploaded_file, startup, request, call>>

\* the file opened before the status is looked at
HttpGet_OpensBeforeStatusCheck ==
    /\ pc = "get"
    /\ \E s \in StatusCodes :
        /\ fetch_calls' = fetch_calls + 1
        /\ status_code' = s
        /\ file_exists' = TRUE
        /\ file_chunks' = 0
        /\ IF s = 200
           THEN /\ pc' = "write"
                /\ UNCHANGED raised
           ELSE /\ raised' = Some([text |-> "Failed to download model. HTTP Status code",
                                   status |-> s])
                /\ pc' = "crashed"
    /\ UNCHANGED <<runs, uploaded_file, messages, artifact, present_at_start,
                   model, grad_model, request, call>>

\* requests.get; on 200 open(output_path, 'wb') creates the file, otherwise
\* the function raises with the status code
HttpGet ==
    /\ pc = "get"
    /\ \E s \in StatusCodes :
        /\ fetch_calls' = fetch_calls + 1
        /\ status_code' = s
        /\ IF s = 200
           THEN /\ file_exists' = TRUE
                /\ file_chunks' = 0
                /\ pc' = "write"
                /\ UNCHANGED raised
           ELSE /\ raised' = Some([text |-> "Failed to download model. HTTP Status code",
                                   status |-> s])
                /\ pc' = "crashed"
                /\ UNCHANGED <<file_exists, file_chunks>>
    /\ UNCHANGED <<runs, uploaded_file, messages, artifact, present_at_start,
                   model, grad_model, request, call>>

\* requests.get itself raises (no connection): the run ends before any response
GetRaises ==
    /\ pc = "get"
    /\ fetch_calls' = fetch_calls + 1
    /\ raised' = Some([text |-> "ConnectionError", status |-> 0])
    /\ pc' = "crashed"
    /\ UNCHANGED <<runs, uploaded_file, messages, file_exists, file_chunks, artifact,
                   present_at_start, status_code, model, grad_model, request, call>>

\* file.write(chunk) for the next chunk of iter_content
WriteChunk ==
    /\ pc = "write"
    /\ file_chunks < NChunks
    /\ file_chunks' = file_chunks + 1
    /\ UNCHANGED <<pc, runs, uploaded_file, messages, file_exists, artifact,
                   present_at_start, fetch_calls, status_code, raised, model,
                   grad_model, request, call>>

\* iter_content raises when the connection breaks: the with block closes the
\* file, which stays as written, and the exception ends the run
DownloadInterrupted ==
    /\ pc = "write"
    /\ file_chunks < NChunks
    /\ raised' = Some([text |-> "ChunkedEncodingError", status |-> status_code])
    /\ pc' = "crashed"
    /\ UNCHANGED <<runs, uploaded_file, messages, file_exists, file_chunks, artifact,
                   present_at_start, fetch_calls, status_code, model, grad_model,
                   request, call>>

\* iter_content is exhausted and the file is closed
DownloadDone ==
    /\ pc = "write"
    /\ file_chunks = NChunks
    /\ pc' = "load"
    /\ UNCHANGED <<runs, uploaded_file, messages, startup, request, call>>

\* try: model = load_model(MODEL_PATH) except: st.error(...); st.stop()
LoadModel ==
    /\ pc = "load"
    /\ IF file_exists /\ file_chunks = NChunks /\ artifact # "corrupt"
       THEN /\ model' = artifact
            /\ messages' = messages \cup {"success: Model loaded successfully!"}
            /\ pc' = "grad"
       ELSE /\ messages' = messages \cup {"error: Failed to load the model"}
            /\ pc' = "stopped"
            /\ UNCHANGED model
    /\ UNCHANGED <<runs, uploaded_file, file_exists, file_chunks, artifact,
                   present_at_start, fetch_calls, status_code, raised, grad_model,
                   request, call>>

\* the missing layer reported without st.stop()
GradSetup_NoStop ==
    /\ pc = "grad"
    /\ IF model = "ok"
       THEN /\ grad_model' = TRUE
            /\ UNCHANGED messages
       ELSE /\ messages' = messages \cup {"error: Failed to configure Grad-CAM"}
            /\ UNCHANGED grad_model
    /\ pc' = "ui"
    /\ UNCHANGED <<runs, uploaded_file, file_exists, file_chunks, artifact,
                   present_at_start, fetch_calls, status_code, raised, model,
                   request, call>>

\* try: grad_model = Model(..., model.get_layer("global_average_pooling2d").input ...)
\* except: st.error(...); st.stop()
GradSetup ==
    /\ pc = "grad"
    /\ IF model = "ok"
       THEN /\ grad_model' = TRUE
            /\ pc' = "ui"
            /\ UNCHANGED messages
       ELSE /\ messages' = messages \cup {"error: Failed to configure Grad-CAM"}
            /\ pc' = "stopped"
            /\ UNCHANGED grad_model
    /\ UNCHANGED <<runs, uploaded_file, file_exists, file_chunks, artifact,
                   present_at_start, fetch_calls, status_code, raised, model,
                   request, call>>

(* ---------------------------- request handling ------------------------ *)
\* if uploaded_file: ... else: st.info("Please upload an X-ray image ...")
CheckUpload ==
    /\ pc = "ui"
    /\ IF uploaded_file.kind # "none"
       THEN pc' = "preprocess" /\ UNCHANGED messages
       ELSE pc' = "end" /\ messages' = messages \cup {"info: Please upload an X-ray image"}
    /\ UNCHANGED <<runs, uploaded_file, startup, request, call>>

\* load_img, img_to_array, expand_dims, preprocess_input
Preprocess ==
    /\ pc = "preprocess"
    /\ uploaded_file.kind = "image"
    /\ img' = uploaded_file.pixels
    /\ img_array' = Some(preprocess_input(uploaded_file.pixels[1]))
    /\ pc' = "predict"
    /\ UNCHANGED <<runs, uploaded_file, messages, startup, predictions, report,
                   heatmap, pred_index, heatmap_overlay, bars, failed_stage,
                   had_request_error, call>>

\* model.predict, np.argmax, 100 * predictions, st.metric
Predict ==
    /\ pc = "predict"
    /\ \E p \in ProbVectors :
        /\ predictions' = Some(p)
        /\ report' = Some(Report(p))
    /\ pc' = "gradcam"
    /\ UNCHANGED <<runs, uploaded_file, messages, startup, img, img_array, heatmap,
                   pred_index, heatmap_overlay, bars, failed_stage,
                   had_request_error, call>>

\* heatmap = make_gradcam_heatmap(grad_model, img_array): grad_model shares the
\* model's layers, so its preds for img_array are the predictions
Gradcam ==
    /\ pc = "gradcam"
    /\ \E acts \in ActivationMaps, grads \in GradientMaps :
        LET r == make_gradcam_heatmap(predictions[1], acts, grads, None)
        IN  /\ heatmap' = r.heatmap
            /\ pred_index' = r.pred_index
    /\ pc' = "overlay"
    /\ UNCHANGED <<runs, uploaded_file, messages, startup, img, img_array,
                   predictions, report, heatmap_overlay, bars, failed_stage,
                   had_request_error, call>>

HasNaN(h) == \E p \in DOMAIN h : ~IsFinite(h[p])

\* heatmap_overlay = overlay_heatmap_on_image(img_to_array(img), heatmap)
Overlay ==
    /\ pc = "overlay"
    /\ \E nan_cast \in (IF HasNaN(heatmap[1]) THEN NaNCastOutcomes ELSE {0}) :
        heatmap_overlay' =
            Some(overlay_heatmap_on_image(img[1], heatmap[1], <<2, 5>>, nan_cast))
    /\ pc' = "render"
    /\ UNCHANGED <<runs, uploaded_file, messages, startup, img, img_array,
                   predictions, report, heatmap, pred_index, bars, failed_stage,
                   had_request_error, call>>

\* the two columns and the confidence bar chart
Render ==
    /\ pc = "render"
    /\ bars' = Some(BarChart(report[1].prediction_probabilities))
    /\ pc' = "end"
    /\ UNCHANGED <<runs, uploaded_file, messages, startup, img, img_array,
                   predictions, report, heatmap, pred_index, heatmap_overlay,
                   failed_stage, had_request_error, call>>

\* the exception swallowed: except Exception: pass
RequestError_Swallowed ==
    /\ pc \in {"preprocess", "predict", "gradcam", "overlay", "render"}
    /\ uploaded_file.kind = "corrupt" => pc = "preprocess"
    /\ failed_stage' = Some(pc)
    /\ had_request_error' = TRUE
    /\ pc' = "end"
    /\ UNCHANGED <<runs, uploaded_file, messages, startup, img, img_array,
                   predictions, report, heatmap, pred_index, heatmap_overlay, bars,
                   call>>

\* except Exception as e: st.error(f"Error processing the image: {e}").
\* A corrupt upload raises in load_img; any later stage may raise as well.
RequestError ==
    /\ pc \in RequestStages
    /\ uploaded_file.kind = "corrupt" => pc = "preprocess"
    /\ messages' = messages \cup {"error: Error processing the image"}
    /\ failed_stage' = Some(pc)
    /\ had_request_error' = TRUE
    /\ pc' = "end"
    /\ UNCHANGED <<runs, uploaded_file, startup, img, img_array, predictions,
                   report, heatmap, pred_index, heatmap_overlay, bars, call>>

\* the user interacts with the uploader and Streamlit executes the script again
Rerun ==
    /\ pc \in Halted \cup {"end"}
    /\ runs < MaxRuns
    /\ runs' = runs + 1
    /\ uploaded_file' \in Uploads \cup {NoUpload}
    /\ pc' = "start"
    /\ present_at_start' = file_exists
    /\ fetch_calls' = 0
    /\ status_code' = 0
    /\ raised' = None
    /\ messages' = {}
    /\ model' = "none"
    /\ grad_model' = FALSE
    /\ img' = None
    /\ img_array' = None
    /\ predictions' = None
    /\ report' = None
    /\ heatmap' = None
    /\ pred_index' = None
    /\ heatmap_overlay' = None
    /\ bars' = None
    /\ failed_stage' = None
    /\ explain_call' = None
    /\ overlay_call' = None
    /\ UNCHANGED <<file_exists, file_chunks, artifact, had_request_error>>

(* ------------------ the two functions, called directly ---------------- *)
\* A fresh session (first run, model loaded, no upload yet) in which a caller
\* applies one of the functions: make_gradcam_heatmap with or without a pred_index
CallExplain ==
    /\ pc = "end"
    /\ runs = 1
    /\ grad_model
    /\ call = <<None, None>>
    /\ \E preds \in ProbVectors, acts \in ActivationMaps, grads \in GradientMaps,
          index \in {None} \cup {Some(i) : i \in IndexArgs} :
        explain_call' = Some([index |-> index, preds |-> preds,
                              result |-> make_gradcam_heatmap(preds, acts, grads, index)])
    /\ UNCHANGED <<pc, runs, uploaded_file, messages, startup, request, overlay_call>>

\* ... and overlay_heatmap_on_image with an alpha of its choice
CallOverlay ==
    /\ pc = "end"
    /\ runs = 1
    /\ grad_model
    /\ call = <<None, None>>
    /\ \E image \in Images, h \in [Positions -> HeatValues], alpha \in Alphas :
        overlay_call' = Some([img |-> image, heatmap |-> h, alpha |-> alpha,
                              result |-> overlay_heatmap_on_image(image, h, alpha, 0)])
    /\ UNCHANGED <<pc, runs, uploaded_file, messages, startup, request, explain_call>>

Next ==
    \/ ProvisionGuard
    \/ HttpGet
    \/ GetRaises
    \/ WriteChunk
    \/ DownloadInterrupted
    \/ DownloadDone
    \/ LoadModel
    \/ GradSetup
    \/ CheckUpload
    \/ Preprocess
    \/ Predict
    \/ Gradcam
    \/ Overlay
    \/ Render
    \/ RequestError
    \/ Rerun

Spec == Init /\ [][Next]_vars
NextCalls == Next \/ CallExplain \/ CallOverlay

SpecCalls == Init /\ [][NextCalls]_vars
(* ------------------------------- claims -------------------------------- *)
LoadFailed == "error: Failed to load the model" \in messages
GradFailed == "error: Failed to configure Grad-CAM" \in messages
StartupFailed == raised # None \/ LoadFailed \/ GradFailed
NothingHandled ==
    img = None /\ img_array = None /\ predictions = None /\ report = None
        /\ heatmap = None /\ heatmap_overlay = None /\ bars = None

\* C1: a run that starts with the file at MODEL_PATH present issues no HTTP
\* request, neither before the model is loaded nor after.
C1_NoFetchWhenPresent == present_at_start => fetch_calls = 0

C1_Witness == present_at_start /\ model = "ok" /\ grad_model /\ fetch_calls = 0

\* C2: after a response with a status other than 200 the download has failed
\* with an exception that carries that status, the run is over, and no file
\* exists at MODEL_PATH.
C2_FailedDownloadLeavesNoFile ==
    status_code \notin {0, 200} =>
        /\ pc = "crashed"
        /\ raised = Some([text |-> "Failed to download model. HTTP Status code",
                          status |-> status_code])
        /\ ~file_exists

C2_Witness == status_code = 404 /\ pc = "crashed" /\ ~file_exists /\ fetch_calls = 1

\* C3: a file exists at MODEL_PATH only if it holds the complete artifact, so
\* a run whose presence check found the file never loads a partial one.
C3_FileOnlyIfComplete ==
    /\ file_exists => file_chunks = NChunks
    /\ present_at_start => file_chunks = NChunks

\* C4: once startup has failed (download, load or the missing layer) the run
\* is halted and has preprocessed, predicted and explained nothing; an upload
\* is only ever handled with the model loaded and the gradient sub-model
\* built, so a missing layer is found at setup and never while handling one.
C4_StartupErrorsHalt ==
    /\ StartupFailed => pc \in Halted /\ NothingHandled
    /\ pc \in Halted => NothingHandled
    /\ (pc \in RequestStages \/ ~NothingHandled \/ failed_stage # None) =>
            model = "ok" /\ grad_model /\ ~StartupFailed

C4_Witness ==
    GradFailed /\ pc = "stopped" /\ uploaded_file.kind = "image" /\ model = "nolayer"

\* C5: an exception raised at any stage of handling an upload ends that run
\* with the error message on the page, no uncaught exception, the model and
\* the gradient sub-model still in place and the model file intact.
C5_RequestErrorsRecoverable ==
    failed_stage # None =>
        /\ failed_stage[1] \in RequestStages
        /\ pc = "end"
        /\ "error: Error processing the image" \in messages
        /\ raised = None
        /\ model = "ok" /\ grad_model
        /\ file_exists /\ file_chunks = NChunks

\* an upload is handled to the end in a run after one whose upload failed
C5_Witness ==
    had_request_error /\ failed_stage = None /\ pc = "end" /\ bars # None
        /\ heatmap_overlay # None

\* C6: every value of the heat map lies in [0, 1] and none is NaN; when the
\* weighted map's maximum is zero the result is all zero.
C6_HeatmapInUnitRange ==
    heatmap # None =>
        \A p \in Positions :
            /\ IsFinite(heatmap[1][p])
            /\ RatLeq(RatInt(0), heatmap[1][p])
            /\ RatLeq(heatmap[1][p], RatInt(1))

\* C7: a call with a pred_index outside [0, 4] fails with InvalidArgument,
\* returns no heat map and runs no forward pass.
C7_OutOfRangeIndexRejected ==
    (explain_call # None /\ explain_call[1].index # None
        /\ explain_call[1].index[1] \notin 0 .. 4) =>
            /\ explain_call[1].result.raised = Some("InvalidArgumentError")
            /\ explain_call[1].result.heatmap = None
            /\ explain_call[1].result.forward_passes = 0

\* C8: with alpha = 0 the overlay's pixels are the original image's pixels.
C8_AlphaZeroIsIdentity ==
    (overlay_call # None /\ overlay_call[1].alpha = <<0, 1>>) =>
        overlay_call[1].result = overlay_call[1].img

\* C9: the reported class is the class name at the first maximum of the
\* probabilities, the reported confidence is 100 times the largest probability
\* (the metric prints it with two decimals), the bars pair class_names[i] with
\* 100 * p[i] in class order, and the percentages of probabilities that sum
\* to 1 sum to 100.
C9_ConfidenceReport ==
    report # None =>
        LET p == predictions[1]
            r == report[1]
            top == CHOOSE i \in Classes :
                       /\ \A j \in Classes : RatLeq(p[j], p[i])
                       /\ \A j \in Classes : j < i => RatLess(p[j], p[i])
        IN  /\ r.predicted_class = class_names[top]
            /\ r.confidence = RatMul(RatInt(100), p[top])
            /\ r.delta = Format2f(r.confidence)
            /\ \A i \in Classes :
                   r.prediction_probabilities[i] = RatMul(RatInt(100), p[i])
            /\ RatSum(p, Classes) = RatInt(1) =>
                   RatSum(r.prediction_probabilities, Classes) = RatInt(100)
            /\ bars # None =>
                   \A i \in Classes :
                       /\ bars[1][i].label = class_names[i]
                       /\ bars[1][i].width = RatMul(RatInt(100), p[i])

C9_Witness ==
    /\ pc = "end" /\ bars # None
    /\ report[1].predicted_class = "KL-GRADE 3"
    /\ report[1].delta = 8766
    /\ bars[1][2].text = 1234

\* C10: without a pred_index the class differentiated is the first maximum of
\* the probabilities of that forward pass, so the class the heat map of an
\* upload explains is the class reported for it; a pred_index in [0, 4] is
\* used as given.
C10_ExplainsPredictedClass ==
    /\ heatmap # None =>
           /\ pred_index # None
           /\ class_names[pred_index[1] + 1] = report[1].predicted_class
           /\ \A j \in Classes :
                  RatLeq(predictions[1][j], predictions[1][pred_index[1] + 1])
    /\ explain_call # None =>
           LET c == explain_call[1] IN
           /\ c.index = None =>
                  /\ c.result.raised = None
                  /\ class_names[c.result.pred_index[1] + 1] = PredictedClass(c.preds)
           /\ (c.index # None /\ c.index[1] \in 0 .. 4) =>
                  /\ c.result.raised = None
                  /\ c.result.pred_index = c.index

C10_Witness ==
    /\ heatmap # None /\ pred_index = Some(3)
    /\ report[1].predicted_class = "KL-GRADE 3"
    /\ pc = "end" /\ bars # None
====
